---- MODULE Spec2Model ----
(***************************************************************************)
(* RotaryUsb firmware: four rotary encoders with push buttons, polled in   *)
(* a loop, reported either as keyboard keys (firmware/code.py) or as a raw *)
(* 7-byte HID report (firmware/code_generic_hid.py).                       *)
(*                                                                         *)
(* Time is counted in whole milliseconds.  The firmware only ever compares *)
(* differences of time.monotonic() readings against a threshold, so the    *)
(* model keeps the differences (saturated at the threshold) instead of the *)
(* absolute readings.                                                      *)
(***************************************************************************)
EXTENDS Integers, Sequences, FiniteSets, TLC

\* ------------------------------------------------------------------ bounds
\* Longest time one loop iteration may take, in ms (sleep plus processing).
MaxSleep == 2
\* Largest accumulator magnitude fed to the report builder in SpecReport.
MaxMovement == 200
\* Largest number of detents turned in an end-to-end run.
MaxDetents == 4

\* ------------------------------------------------------- program constants
NumEncoders == 4
BUTTON_DEBOUNCE_TIME == 20
LOOP_DELAY == 1
REPORT_INTERVAL == 10
DETENT_STEPS == 4
MOVEMENT_LIMIT == 127
REPORT_SIZE == 7

Channels == 0 .. (NumEncoders - 1)
Phases == 0 .. 3
NoChannel == NumEncoders
NoPhase == 4
NoisedBack == NoPhase + 1

KEY_MAPPINGS ==
    << [cw_key |-> "F1", ccw_key |-> "F2", btn_key |-> "F9"],
       [cw_key |-> "F3", ccw_key |-> "F4", btn_key |-> "F10"],
       [cw_key |-> "F5", ccw_key |-> "F6", btn_key |-> "F11"],
       [cw_key |-> "F7", ccw_key |-> "F8", btn_key |-> "F12"] >>

\* (previous_state, current_state) -> direction; phases are the 2-bit value
\* (a << 1) | b of the inverted pin readings.
TRANSITION_TABLE ==
    (<<0, 1>> :> 1) @@ (<<1, 3>> :> 1) @@ (<<3, 2>> :> 1) @@ (<<2, 0>> :> 1) @@
    (<<0, 2>> :> -1) @@ (<<2, 3>> :> -1) @@ (<<3, 1>> :> -1) @@ (<<1, 0>> :> -1)

VARIABLES
    mode,          \* which firmware runs: "keyboard" or "generic_hid"
    scenario,      \* which pins the environment moves in this run
    pc,            \* position in the main loop: "poll", "report", "sleep"
    encoders,      \* the four Encoder objects
    report,        \* main: report buffer (7 bytes)
    last_report,   \* main: last_report snapshot (7 bytes)
    since_report,  \* current_time - last_report_time, saturated
    polled,        \* per channel: what the last update() read and produced
    keys,          \* keyboard.send calls of the last polling pass, in order
    since_change,  \* per channel: time since last_button_state last changed
    tx,            \* what the last pass through the report step did
    all_idle,      \* no pressed flag and no non-zero movement byte so far
    builds,        \* number of reports built so far, saturated at 2
    streak,        \* per channel: length of the current run of clean steps
    host_buttons,  \* button byte of the last report the host received
    fresh,         \* per channel: net detents completed since the last build
    since_build,   \* time since the last report was built, saturated
    visited,       \* channels polled so far in this iteration, in order
    noise_from,    \* per channel: stored phase before an invalid lookup made
                   \* by the last poll, NoisedBack if that lookup read the
                   \* phase stored before the invalid lookup of the poll
                   \* before it, NoPhase if the last poll made none
    prev_build,    \* the previous build: whether a detent had completed in
                   \* its interval, and the mask of the pressed flags at it
    net,           \* per channel: running net count of steps of the cycle
                   \* since it last was at a multiple of four
    fed,           \* end-to-end runs: clockwise steps fed to channel 0
    sent_sum       \* end-to-end runs: per channel, sum of the movement bytes
                   \* transmitted

vars == << mode, scenario, pc, encoders, report, last_report, since_report,
           polled, keys, since_change, tx, all_idle, builds, streak,
           host_buttons, fresh, since_build, visited, noise_from, net,
           prev_build, fed, sent_sum >>

\* Bookkeeping of the end-to-end runs, untouched by the plain loop.
totals == << fed, sent_sum >>

Min(a, b) == IF a < b THEN a ELSE b
Max(a, b) == IF a > b THEN a ELSE b

\* ---------------------------------------------------------------- Encoder
\* Lookup with the entry (10, 00) carrying the wrong sign.
LookupWrongSign(prev, cur) ==
    IF <<prev, cur>> = <<2, 0>> THEN -1
    ELSE IF <<prev, cur>> \in DOMAIN TRANSITION_TABLE
    THEN TRANSITION_TABLE[<<prev, cur>>]
    ELSE 0

\* Lookup that takes a pair missing from the table for a clockwise step.
LookupDefaultStep(prev, cur) ==
    IF <<prev, cur>> \in DOMAIN TRANSITION_TABLE
    THEN TRANSITION_TABLE[<<prev, cur>>]
    ELSE 1

\* TRANSITION_TABLE.get(transition, 0)
Lookup(prev, cur) ==
    IF <<prev, cur>> \in DOMAIN TRANSITION_TABLE
    THEN TRANSITION_TABLE[<<prev, cur>>]
    ELSE 0

\* The state Encoder.__init__ leaves, reading phase ab and button level sw.
NewEncoder(ab, sw) ==
    [ last_ab_state |-> ab,
      steps |-> 0,
      accumulated_movement |-> 0,
      last_button_state |-> sw,
      button_pressed |-> FALSE,
      since_button |-> 0 ]

\* DetentAt with strict comparisons: a detent only past the fourth step.
DetentAtStrict(s) ==
    IF s > DETENT_STEPS THEN 1
    ELSE IF s < -DETENT_STEPS THEN -1
    ELSE 0

\* Whether a detent completes at accumulator value s, and its direction.
DetentAt(s) ==
    IF s >= DETENT_STEPS THEN 1
    ELSE IF s <= -DETENT_STEPS THEN -1
    ELSE 0

\* Variant: the stored phase is kept when the pair is not in the table.
StoredPhaseKeptOnInvalid(e, ab) ==
    IF Lookup(e.last_ab_state, ab) = 0 THEN e.last_ab_state ELSE ab

\* The stored previous phase after a poll that read ab.
StoredPhase(e, ab) == ab

\* Variant: a pair absent from the table counts as two steps in the
\* direction of the count in progress.
UpdateRotationJumpCountsTwo(e, ab, m) ==
    IF ab # e.last_ab_state
    THEN LET looked == Lookup(e.last_ab_state, ab)
             direction == IF looked # 0 THEN looked
                          ELSE IF e.steps > 0 THEN 2
                          ELSE IF e.steps < 0 THEN -2
                          ELSE 0
             s == e.steps + direction
             d == IF direction # 0 THEN DetentAt(s) ELSE 0
         IN  [ enc |-> [e EXCEPT
                   !.steps = IF d # 0 THEN 0 ELSE s,
                   !.accumulated_movement =
                       IF m = "generic_hid" THEN @ + d ELSE @,
                   !.last_ab_state = StoredPhase(e, ab)],
               detent |-> d,
               dir |-> direction,
               at |-> s,
               lookup |-> IF looked # 0 THEN "valid" ELSE "invalid" ]
    ELSE [ enc |-> e, detent |-> 0, dir |-> 0, at |-> e.steps,
           lookup |-> "none" ]

\* Variant with a direction lock: a valid step against the sign of a partial
\* count restarts the count in the new direction.
UpdateRotationDirectionLock(e, ab, m) ==
    IF ab # e.last_ab_state
    THEN LET direction == Lookup(e.last_ab_state, ab)
             s == IF e.steps * direction < 0 THEN direction
                  ELSE e.steps + direction
             d == IF direction # 0 THEN DetentAt(s) ELSE 0
         IN  [ enc |-> [e EXCEPT
                   !.steps = IF d # 0 THEN 0 ELSE s,
                   !.accumulated_movement =
                       IF m = "generic_hid" THEN @ + d ELSE @,
                   !.last_ab_state = StoredPhase(e, ab)],
               detent |-> d,
               dir |-> direction,
               at |-> s,
               lookup |-> IF direction # 0 THEN "valid" ELSE "invalid" ]
    ELSE [ enc |-> e, detent |-> 0, dir |-> 0, at |-> e.steps,
           lookup |-> "none" ]

\* Rotation half of Encoder.update: the encoder after reading phase ab, the
\* detent completed (+1 CW, -1 CCW, 0 none) and the kind of table lookup.
UpdateRotation(e, ab, m) ==
    IF ab # e.last_ab_state
    THEN LET direction == Lookup(e.last_ab_state, ab)
             s == e.steps + direction
             d == IF direction # 0 THEN DetentAt(s) ELSE 0
         IN  [ enc |-> [e EXCEPT
                   !.steps = IF d # 0 THEN 0 ELSE s,
                   !.accumulated_movement =
                       IF m = "generic_hid" THEN @ + d ELSE @,
                   !.last_ab_state = StoredPhase(e, ab)],
               detent |-> d,
               dir |-> direction,
               at |-> s,
               lookup |-> IF direction # 0 THEN "valid" ELSE "invalid" ]
    ELSE [ enc |-> e, detent |-> 0, dir |-> 0, at |-> e.steps,
           lookup |-> "none" ]

\* Variant: the window has to be exceeded, not reached.
DebounceElapsedStrict(e) == e.since_button > BUTTON_DEBOUNCE_TIME

\* DebounceElapsed comparing against the loop delay instead of the window.
DebounceElapsedLoopDelay(e) == e.since_button >= LOOP_DELAY

\* (current_time - self.last_button_time) >= BUTTON_DEBOUNCE_TIME
DebounceElapsed(e) == e.since_button >= BUTTON_DEBOUNCE_TIME

\* The pressed flag after accepting level sw (True = high = released).
PressedAfter(e, sw) ==
    IF ~sw /\ ~e.button_pressed THEN TRUE
    ELSE IF sw /\ e.button_pressed THEN FALSE
    ELSE e.button_pressed

\* Variant: a raw level change inside the debounce window restarts the window.
UpdateButtonRestartsWindow(e, sw) ==
    IF sw # e.last_button_state
    THEN IF DebounceElapsed(e)
         THEN LET p == PressedAfter(e, sw)
              IN  [ enc |-> [e EXCEPT !.since_button = 0,
                                      !.last_button_state = sw,
                                      !.button_pressed = p],
                    edge |-> IF p = e.button_pressed THEN "silent"
                             ELSE IF p THEN "press" ELSE "release" ]
         ELSE [ enc |-> [e EXCEPT !.since_button = 0], edge |-> "ignored" ]
    ELSE [ enc |-> e, edge |-> "none" ]

\* Button half of Encoder.update: the encoder after reading level sw, and
\* the edge: "press", "release", "silent" (level accepted, flag unchanged),
\* "ignored" (level differs inside the window) or "none".
UpdateButton(e, sw) ==
    IF sw # e.last_button_state
    THEN IF DebounceElapsed(e)
         THEN LET p == PressedAfter(e, sw)
              IN  [ enc |-> [e EXCEPT !.since_button = 0,
                                      !.last_button_state = sw,
                                      !.button_pressed = p],
                    edge |-> IF p = e.button_pressed THEN "silent"
                             ELSE IF p THEN "press" ELSE "release" ]
         ELSE [ enc |-> e, edge |-> "ignored" ]
    ELSE [ enc |-> e, edge |-> "none" ]

\* Variant: the button key is passed before the detent key.
KeysOfButtonFirst(i, detent, edge) ==
    (IF edge = "press" THEN << KEY_MAPPINGS[i + 1].btn_key >> ELSE << >>)
    \o (IF detent = 1 THEN << KEY_MAPPINGS[i + 1].cw_key >>
        ELSE IF detent = -1 THEN << KEY_MAPPINGS[i + 1].ccw_key >>
        ELSE << >>)

\* The keycodes Encoder.update of channel i passes to _send_key, in order.
KeysOf(i, detent, edge) ==
    (IF detent = 1 THEN << KEY_MAPPINGS[i + 1].cw_key >>
     ELSE IF detent = -1 THEN << KEY_MAPPINGS[i + 1].ccw_key >>
     ELSE << >>)
    \o (IF edge = "press" THEN << KEY_MAPPINGS[i + 1].btn_key >> ELSE << >>)

\* Variant: a failure of keyboard.send leaves _send_key as an exception.
SendKeyRaisesOnFailure(ok) == ~ok

\* Encoder._send_key: whether it raises when keyboard.send had outcome ok.
\* The try/except catches every failure.
SendKeyRaises(ok) == FALSE

\* Encoder.update of channel i, reading phase ab and button level sw.
Update(e, ab, sw, m) ==
    LET r == UpdateRotation(e, ab, m)
        b == UpdateButton(r.enc, sw)
    IN  [ enc |-> b.enc, ab |-> ab, sw |-> sw,
          detent |-> r.detent, dir |-> r.dir, at |-> r.at,
          lookup |-> r.lookup, edge |-> b.edge ]


\* ------------------------------------------------------- report building
\* ClampMovement without the clamp.
ClampMovementNone(acc) == acc

\* Variant: the value returned is limited to one detent.
ClampMovementUnit(acc) == Max(-1, Min(1, acc))

\* Encoder.get_and_clear_movement: the value returned.
ClampMovement(acc) == Max(-MOVEMENT_LIMIT, Min(MOVEMENT_LIMIT, acc))

\* Variant: the accumulator is read but not cleared.
ClearedMovementKept(acc) == acc

\* Encoder.get_and_clear_movement: the accumulator it leaves.
ClearedMovement(acc) == 0

signed_to_unsigned_byte(value) ==
    IF value < 0 THEN (256 + value) % 256 ELSE value % 256

Bit(b) == IF b THEN 1 ELSE 0

\* ButtonStates with every bit one position too high.
ButtonStatesShifted(encs) ==
    2 * Bit(encs[0].button_pressed) + 4 * Bit(encs[1].button_pressed)
    + 8 * Bit(encs[2].button_pressed) + 16 * Bit(encs[3].button_pressed)

\* button_states of the polling pass: bit i set when update() of channel i
\* returned True.
ButtonStates(encs) ==
    Bit(encs[0].button_pressed) + 2 * Bit(encs[1].button_pressed)
    + 4 * Bit(encs[2].button_pressed) + 8 * Bit(encs[3].button_pressed)

\* The report buffer after the build: bytes 1..4 are the channels' movement,
\* byte 5 the buttons, bytes 6 and 7 reserved (the source counts from 0).
BuildReport(encs) ==
    [ k \in 1 .. REPORT_SIZE |->
        IF k <= NumEncoders
        THEN signed_to_unsigned_byte(ClampMovement(encs[k - 1].accumulated_movement))
        ELSE IF k = NumEncoders + 1 THEN ButtonStates(encs)
        ELSE 0 ]

\* has_movement = any(report[i] != 0 for i in range(4))
HasMovement(rep) == \E k \in 1 .. NumEncoders : rep[k] # 0

\* ShouldSend without the suppression: every report built is sent.
ShouldSendAlways(rep, last) == TRUE

\* ShouldSend without has_movement: only a changed report is sent.
ShouldSendChangeOnly(rep, last) == rep # last

\* has_movement or has_change: the condition under which send_report is called.
ShouldSend(rep, last) == HasMovement(rep) \/ rep # last

\* Variant: the snapshot is kept when send_report failed.
SnapshotAfterKeptOnFailure(rep, last, ok) == IF ok THEN rep ELSE last

\* last_report after a pass that called send_report with outcome ok.
SnapshotAfter(rep, last, ok) == rep

\* main: whether the report step raises when send_report had outcome ok.
\* The try/except catches every failure.
SendReportRaises(ok) == FALSE

\* for i, encoder in enumerate(encoders): the order of the polling pass.
PollOrder == << 0, 1, 2, 3 >>

\* Variant: the report interval is taken to be the loop delay.
IntervalElapsedAfterLoopDelay == since_report >= LOOP_DELAY

\* (current_time - last_report_time) >= REPORT_INTERVAL
IntervalElapsed == since_report >= REPORT_INTERVAL

ZeroReport == [ k \in 1 .. REPORT_SIZE |-> 0 ]

NoTx ==
    [ built |-> FALSE, invoked |-> FALSE, ok |-> FALSE,
      has_movement |-> FALSE, has_change |-> FALSE,
      movement |-> [ i \in Channels |-> 0 ], follows |-> "none" ]

\* ------------------------------------------------------------ environment
\* A run moves the phase pins of at most one channel (rot) and the button pin
\* of at most one channel (btn); every other pin rests at its pulled-up level.
\* In a clean run the phase pins only ever advance clockwise, one step at a
\* time; otherwise any phase may be read at any poll.
Scenario(r, b, c) == [ rot |-> r, btn |-> b, clean |-> c ]

Scenarios(m) ==
    { Scenario(NoChannel, c, FALSE) : c \in Channels }
    \cup (IF m = "keyboard"
          THEN { Scenario(c, NoChannel, FALSE) : c \in Channels }
               \cup { Scenario(0, 1, TRUE), Scenario(3, 3, TRUE) }
          ELSE { Scenario(2, NoChannel, FALSE) }
               \cup { Scenario(c, NoChannel, TRUE) : c \in {0, 1, 3} })

PhaseInputs(cur) ==
    IF scenario.rot = NoChannel THEN {0}
    ELSE IF scenario.clean
         THEN {cur} \cup { p \in Phases : Lookup(cur, p) = 1 }
         ELSE Phases

ButtonInputs == IF scenario.btn = NoChannel THEN {TRUE} ELSE BOOLEAN

\* The clockwise cycle of phases 00 -> 01 -> 11 -> 10 -> 00.
CwNext == (0 :> 1) @@ (1 :> 3) @@ (3 :> 2) @@ (2 :> 0)

\* Direction of a phase pair on the cycle 00 -> 01 -> 11 -> 10 -> 00:
\* +1 one step clockwise, -1 one step counter-clockwise, 0 otherwise.
CycleDir(prev, cur) ==
    IF cur = CwNext[prev] THEN 1 ELSE IF prev = CwNext[cur] THEN -1 ELSE 0

\* Bookkeeping: the detent a step of the cycle completes when it is made at
\* step accumulator s (+1 CW, -1 CCW, 0 none).
DetentDue(s, prev, cur) ==
    LET dir == CycleDir(prev, cur)
    IN  IF dir # 0 /\ s + dir = 4 THEN 1
        ELSE IF dir # 0 /\ s + dir = -4 THEN -1
        ELSE 0

\* Bookkeeping: the pressed flags as a bit mask, channel i at bit i.
PressedMask ==
    (IF encoders[0].button_pressed THEN 1 ELSE 0)
    + (IF encoders[1].button_pressed THEN 2 ELSE 0)
    + (IF encoders[2].button_pressed THEN 4 ELSE 0)
    + (IF encoders[3].button_pressed THEN 8 ELSE 0)

\* Bookkeeping: how a build relates to the build before it.  "moved": no
\* detent since that build and the same mask, and that build had movement;
\* "quiet": the same, but that build had no movement (or there was none
\* before); "other": a detent completed or the mask changed.
Follows ==
    IF (\E i \in Channels : fresh[i] # 0) \/ PressedMask # prev_build.mask
    THEN "other"
    ELSE IF prev_build.moved THEN "moved" ELSE "quiet"

\* Bookkeeping for runs of clean steps: k counts the steps of the cycle made
\* in a row since a poll that started with the step accumulator at 0, positive
\* for clockwise runs and negative for counter-clockwise ones.  A poll that
\* reads the phase unchanged keeps a run of fewer than four steps open.
StreakAfter(k, steps_before, prev, cur) ==
    IF cur = prev THEN (IF k \in -3 .. 3 THEN k ELSE 0)
    ELSE IF cur = CwNext[prev]
         THEN (IF k \in 1 .. 3 THEN k + 1 ELSE IF steps_before = 0 THEN 1 ELSE 0)
    ELSE IF prev = CwNext[cur]
         THEN (IF k \in -3 .. -1 THEN k - 1 ELSE IF steps_before = 0 THEN -1 ELSE 0)
    ELSE 0

\* ------------------------------------------------------------------- Init
NoPoll(ab, sw) ==
    [ ab |-> ab, sw |-> sw, detent |-> 0, dir |-> 0, at |-> 0,
      lookup |-> "none", edge |-> "none" ]

InitWith(m, sc, a, s) ==
    LET ab0 == [ i \in Channels |-> IF i = sc.rot THEN a ELSE 0 ]
        sw0 == [ i \in Channels |-> IF i = sc.btn THEN s ELSE TRUE ]
    IN  /\ mode = m
        /\ scenario = sc
        /\ pc = "poll"
        /\ encoders = [ i \in Channels |-> NewEncoder(ab0[i], sw0[i]) ]
        /\ report = ZeroReport
        /\ last_report = ZeroReport
        /\ since_report = 0
        /\ polled = [ i \in Channels |-> NoPoll(ab0[i], sw0[i]) ]
        /\ keys = << >>
        /\ since_change = [ i \in Channels |-> 0 ]
        /\ tx = NoTx
        /\ all_idle = TRUE
        /\ builds = 0
        /\ streak = [ i \in Channels |-> 0 ]
        /\ host_buttons = 0
        /\ fresh = [ i \in Channels |-> 0 ]
        /\ since_build = 0
        /\ visited = << >>
        /\ noise_from = [ i \in Channels |-> NoPhase ]
        /\ net = [ i \in Channels |-> 0 ]
        /\ prev_build = [ moved |-> FALSE, mask |-> 0 ]
        /\ fed = 0
        /\ sent_sum = [ i \in Channels |-> 0 ]

Init ==
    \E m \in {"keyboard", "generic_hid"} :
        \E sc \in Scenarios(m) :
            \E a \in (IF sc.rot = NoChannel THEN {0} ELSE Phases),
               s \in (IF sc.btn = NoChannel THEN {TRUE} ELSE BOOLEAN) :
                InitWith(m, sc, a, s)

\* ---------------------------------------------------------------- actions
\* The polling pass of one loop iteration: update() of channels 0..3 in
\* index order.  a and s are the levels read on the moving pins, drawn from
\* the sets A and S.
PollWith(A, S) ==
    /\ pc = "poll"
    /\ \E a \in A, s \in S :
        LET ab == [ i \in Channels |->
                      IF i = scenario.rot THEN a ELSE polled[i].ab ]
            sw == [ i \in Channels |->
                      IF i = scenario.btn THEN s ELSE polled[i].sw ]
            u  == [ i \in Channels |-> Update(encoders[i], ab[i], sw[i], mode) ]
            ks == IF mode = "keyboard"
                  THEN KeysOf(0, u[0].detent, u[0].edge)
                       \o KeysOf(1, u[1].detent, u[1].edge)
                       \o KeysOf(2, u[2].detent, u[2].edge)
                       \o KeysOf(3, u[3].detent, u[3].edge)
                  ELSE << >>
        IN  /\ encoders' = [ i \in Channels |-> u[i].enc ]
            /\ polled' = [ i \in Channels |->
                             [ ab |-> u[i].ab, sw |-> u[i].sw,
                               detent |-> u[i].detent, dir |-> u[i].dir,
                               at |-> u[i].at,
                               lookup |-> u[i].lookup, edge |-> u[i].edge ] ]
            /\ since_change' = [ i \in Channels |->
                   IF u[i].enc.last_button_state # encoders[i].last_button_state
                   THEN 0 ELSE since_change[i] ]
            /\ \E oks \in [ 1 .. Len(ks) -> BOOLEAN ] :
                /\ keys' = [ k \in 1 .. Len(ks) |-> [ key |-> ks[k], ok |-> oks[k] ] ]
                /\ pc' = IF \E k \in 1 .. Len(ks) : SendKeyRaises(oks[k])
                         THEN "halted"
                         ELSE IF mode = "generic_hid" THEN "report" ELSE "sleep"
            /\ all_idle' = (all_idle /\ \A i \in Channels : ~u[i].enc.button_pressed)
            /\ streak' = [ i \in Channels |->
                   StreakAfter(streak[i], encoders[i].steps,
                               encoders[i].last_ab_state, ab[i]) ]
            /\ fresh' = IF mode = "generic_hid"
                        THEN [ i \in Channels |->
                                 fresh[i] + DetentDue(encoders[i].steps,
                                     encoders[i].last_ab_state, ab[i]) ]
                        ELSE fresh
            /\ noise_from' = [ i \in Channels |->
                   IF ab[i] # encoders[i].last_ab_state
                      /\ CycleDir(encoders[i].last_ab_state, ab[i]) = 0
                   THEN IF ab[i] = noise_from[i] THEN NoisedBack
                        ELSE encoders[i].last_ab_state
                   ELSE NoPhase ]
            /\ net' = [ i \in Channels |->
                   LET t == net[i] + CycleDir(encoders[i].last_ab_state, ab[i])
                   IN  IF t \in { -4, 4 } THEN 0 ELSE t ]
    /\ visited' = PollOrder
    /\ UNCHANGED << mode, scenario, report, last_report, since_report, tx, builds,
                    host_buttons, since_build, prev_build >>

Poll ==
    /\ PollWith(PhaseInputs(IF scenario.rot = NoChannel THEN 0
                            ELSE polled[scenario.rot].ab),
                ButtonInputs)
    /\ UNCHANGED totals

\* The report step of one loop iteration of the Generic HID firmware; the
\* outcome of send_report (True = no exception) is drawn from oks.
ReportWith(oks) ==
    /\ pc = "report"
    /\ mode = "generic_hid"
    /\ IF IntervalElapsed
       THEN LET rep == BuildReport(encoders)
                send == ShouldSend(rep, last_report)
            IN  /\ report' = rep
                /\ encoders' = [ i \in Channels |->
                                   [ encoders[i] EXCEPT
                                       !.accumulated_movement = ClearedMovement(@) ] ]
                /\ \E ok \in (IF send THEN oks ELSE {FALSE}) :
                    /\ tx' = [ built |-> TRUE, invoked |-> send, ok |-> ok,
                               has_movement |-> HasMovement(rep),
                               has_change |-> (rep # last_report),
                               movement |-> [ i \in Channels |->
                                   encoders[i].accumulated_movement ],
                               follows |-> Follows ]
                    /\ last_report' = IF send THEN SnapshotAfter(rep, last_report, ok)
                                      ELSE last_report
                    /\ host_buttons' = IF send /\ ok THEN rep[NumEncoders + 1]
                                       ELSE host_buttons
                    /\ pc' = IF send /\ SendReportRaises(ok) THEN "halted"
                             ELSE "sleep"
                /\ since_report' = 0
                /\ all_idle' = (all_idle /\ ~HasMovement(rep))
                /\ builds' = Min(builds + 1, 2)
                /\ fresh' = [ i \in Channels |-> 0 ]
                /\ since_build' = 0
                /\ prev_build' = [ moved |-> \E i \in Channels : fresh[i] # 0,
                                   mask |-> PressedMask ]
       ELSE /\ tx' = NoTx
            /\ pc' = "sleep"
            /\ UNCHANGED << report, encoders, last_report, since_report,
                            all_idle, builds, host_buttons, fresh, since_build,
                            prev_build >>
    /\ polled' = [ i \in Channels |-> NoPoll(polled[i].ab, polled[i].sw) ]
    /\ UNCHANGED << mode, scenario, keys, since_change, streak, visited,
                    noise_from, net >>

Report ==
    /\ ReportWith(BOOLEAN)
    /\ UNCHANGED totals

\* time.sleep(LOOP_DELAY): d ms pass before the next polling pass.
SleepPass ==
    /\ pc = "sleep"
    /\ \E d \in LOOP_DELAY .. MaxSleep :
        /\ encoders' = [ i \in Channels |->
               [ encoders[i] EXCEPT
                   !.since_button = Min(@ + d, BUTTON_DEBOUNCE_TIME) ] ]
        /\ since_change' = [ i \in Channels |->
               Min(since_change[i] + d, BUTTON_DEBOUNCE_TIME) ]
        /\ since_report' = IF mode = "generic_hid"
                           THEN Min(since_report + d, REPORT_INTERVAL)
                           ELSE since_report
        /\ since_build' = IF mode = "generic_hid"
                          THEN Min(since_build + d, REPORT_INTERVAL)
                          ELSE since_build
    /\ polled' = [ i \in Channels |-> NoPoll(polled[i].ab, polled[i].sw) ]
    /\ keys' = << >>
    /\ tx' = NoTx
    /\ visited' = << >>
    /\ pc' = "poll"
    /\ UNCHANGED << mode, scenario, report, last_report, all_idle, builds, streak,
                    host_buttons, fresh, noise_from, net, prev_build >>

Sleep ==
    /\ SleepPass
    /\ UNCHANGED totals

Next == Poll \/ Report \/ Sleep

Spec == Init /\ [][Next]_vars

\* Runs in which only a button moves, under the fairness of the loop: a
\* while True never stops taking its next step.
InitButton == Init /\ scenario.rot = NoChannel

SpecLive ==
    /\ InitButton /\ [][Next]_vars
    /\ WF_vars(Poll) /\ WF_vars(Report) /\ WF_vars(Sleep)

\* ---------------------------------------------- report builder on its own
\* The report step applied to every accumulator value up to MaxMovement in
\* magnitude, on any one channel, with the interval elapsed.
InitReport ==
    \E c \in Channels, v \in -MaxMovement .. MaxMovement :
        /\ mode = "generic_hid"
        /\ scenario = Scenario(c, NoChannel, FALSE)
        /\ pc = "report"
        /\ encoders = [ i \in Channels |->
               [ NewEncoder(0, TRUE) EXCEPT
                   !.accumulated_movement = IF i = c THEN v ELSE 0 ] ]
        /\ report = ZeroReport
        /\ last_report = ZeroReport
        /\ since_report = REPORT_INTERVAL
        /\ polled = [ i \in Channels |-> NoPoll(0, TRUE) ]
        /\ keys = << >>
        /\ since_change = [ i \in Channels |-> 0 ]
        /\ tx = NoTx
        /\ all_idle = TRUE
        /\ builds = 0
        /\ streak = [ i \in Channels |-> 0 ]
        /\ host_buttons = 0
        /\ fresh = [ i \in Channels |-> IF i = c THEN v ELSE 0 ]
        /\ since_build = REPORT_INTERVAL
        /\ visited = PollOrder
        /\ noise_from = [ i \in Channels |-> NoPhase ]
        /\ net = [ i \in Channels |-> 0 ]
        /\ prev_build = [ moved |-> FALSE, mask |-> 0 ]
        /\ fed = 0
        /\ sent_sum = [ i \in Channels |-> 0 ]

SpecReport == InitReport /\ [][Report]_vars

\* ================================================================= claims
\* A polling pass, as a step of the loop.
PollStep == pc = "poll" /\ pc' # "poll"

\* A pass through the report step in which a report was built.
BuildStep == pc = "report" /\ tx'.built

\* The state right after a report was built.
Built == pc = "sleep" /\ tx.built

CountKey(ks, key) == Cardinality({ k \in DOMAIN ks : ks[k].key = key })

\* Detents channel i put out in this step: CW keys minus CCW keys sent in
\* keyboard mode, the change of accumulated_movement in Generic HID mode.
CwOut(i) ==
    IF mode = "keyboard" THEN CountKey(keys', KEY_MAPPINGS[i + 1].cw_key)
    ELSE Max(encoders'[i].accumulated_movement - encoders[i].accumulated_movement, 0)

CcwOut(i) ==
    IF mode = "keyboard" THEN CountKey(keys', KEY_MAPPINGS[i + 1].ccw_key)
    ELSE Max(encoders[i].accumulated_movement - encoders'[i].accumulated_movement, 0)

\* C1: after every poll |steps| <= 3; a poll puts out at most one detent, and
\* only when its valid step brings the accumulator to +4 (CW) or -4 (CCW),
\* after which the accumulator is 0; a poll leaving 1..3 puts out no detent,
\* and the accumulator keeps its value until the next poll.
C1_DetentAccumulator ==
    /\ [](\A i \in Channels : encoders[i].steps \in -3 .. 3)
    /\ [][PollStep => \A i \in Channels :
            LET dir == CycleDir(encoders[i].last_ab_state, polled'[i].ab)
                s == encoders[i].steps + dir
            IN  /\ CwOut(i) + CcwOut(i) <= 1
                /\ CwOut(i) = 1 => (dir = 1 /\ s = 4 /\ encoders'[i].steps = 0)
                /\ CcwOut(i) = 1 => (dir = -1 /\ s = -4 /\ encoders'[i].steps = 0)
                /\ encoders'[i].steps # 0 => CwOut(i) + CcwOut(i) = 0]_vars
    /\ [][~PollStep => \A i \in Channels :
            encoders'[i].steps = encoders[i].steps]_vars

C1_Witness ==
    /\ mode = "generic_hid"
    /\ polled[2].detent = -1
    /\ encoders[2].steps = 0
    /\ encoders[2].accumulated_movement = -1

\* C2: from accumulator 0 and any phase, four clean clockwise steps in a row
\* put out exactly one CW detent, on the fourth step and not before, and
\* leave the accumulator at 0; four counter-clockwise steps likewise put out
\* exactly one CCW detent.
C2_FullCycle ==
    [][PollStep => \A i \in Channels :
        /\ streak'[i] \in 1 .. 3 =>
               (CwOut(i) + CcwOut(i) = 0 /\ encoders'[i].steps = streak'[i])
        /\ streak'[i] \in -3 .. -1 =>
               (CwOut(i) + CcwOut(i) = 0 /\ encoders'[i].steps = streak'[i])
        /\ streak'[i] = 4 =>
               (CwOut(i) = 1 /\ CcwOut(i) = 0 /\ encoders'[i].steps = 0)
        /\ streak'[i] = -4 =>
               (CcwOut(i) = 1 /\ CwOut(i) = 0 /\ encoders'[i].steps = 0)]_vars

C2_Witness ==
    /\ mode = "keyboard"
    /\ streak[1] = -4
    /\ polled[1].detent = -1
    /\ Len(keys) = 1 /\ keys[1].key = "F4"

\* The eight entries of the transition table, as pairs (previous, current).
TablePairs ==
    { <<0, 1>>, <<1, 3>>, <<3, 2>>, <<2, 0>>,
      <<0, 2>>, <<2, 3>>, <<3, 1>>, <<1, 0>> }

\* C3: a poll observing a pair that is not in the transition table (no change
\* or a two-bit jump) leaves the step accumulator and the movement
\* accumulator unchanged and puts out no detent.
C3_InvalidPairFrame ==
    [][PollStep => \A i \in Channels :
        <<encoders[i].last_ab_state, polled'[i].ab>> \notin TablePairs =>
            /\ encoders'[i].steps = encoders[i].steps
            /\ encoders'[i].accumulated_movement = encoders[i].accumulated_movement
            /\ CwOut(i) = 0 /\ CcwOut(i) = 0]_vars

C3_Witness ==
    \E i \in Channels :
        /\ polled[i].lookup = "invalid"
        /\ encoders[i].steps = 3
        /\ encoders[i].last_ab_state = polled[i].ab

\* C4: two consecutive changes of a channel's accepted level are at least
\* 20 ms apart, and the first change is at least 20 ms after construction.
C4_DebounceWindow ==
    [][\A i \in Channels :
        encoders'[i].last_button_state # encoders[i].last_button_state =>
            since_change[i] >= BUTTON_DEBOUNCE_TIME]_vars

C4_Witness ==
    \E i \in Channels :
        /\ polled[i].edge = "release"
        /\ since_change[i] = 0
        /\ encoders[i].last_button_state

\* C5: whatever the level at construction, a poll that reads the raw level
\* flipped at least 20 ms after the previous accepted transition (or after
\* construction) produces exactly one edge: the pressed flag becomes true
\* (and the button key is sent in keyboard mode) on a high-to-low flip, and
\* becomes false on a low-to-high flip.
C5_EveryFlipOneEdge ==
    [][PollStep => \A i \in Channels :
        (polled'[i].sw # encoders[i].last_button_state
         /\ since_change[i] >= BUTTON_DEBOUNCE_TIME) =>
            IF ~polled'[i].sw
            THEN /\ ~encoders[i].button_pressed
                 /\ encoders'[i].button_pressed
                 /\ mode = "keyboard" =>
                        CountKey(keys', KEY_MAPPINGS[i + 1].btn_key) = 1
            ELSE /\ encoders[i].button_pressed
                 /\ ~encoders'[i].button_pressed]_vars

\* The signed value a movement byte stands for in two's complement.
SignedOf(byte) == IF byte < 128 THEN byte ELSE byte - 256

\* C6: the movement byte of a channel is the two's-complement encoding of its
\* accumulator clamped to -127..127: 127 for more than 127 CW detents, 0x81
\* for more than 127 CCW detents, never 0x80 and never a wrapped value.
C6_Saturation ==
    Built => \A i \in Channels :
        LET v == tx.movement[i]
            c == IF v > 127 THEN 127 ELSE IF v < -127 THEN -127 ELSE v
        IN  /\ report[i + 1] = (IF c >= 0 THEN c ELSE 256 + c)
            /\ report[i + 1] # 128
            /\ v > 127 => report[i + 1] = 127
            /\ v < -127 => report[i + 1] = 129

C6_Witness ==
    /\ Built
    /\ tx.movement[0] = 200
    /\ report[1] = 127

\* C7 as stated: in a run with no button ever pressed and no movement, the
\* first all-zero report built is transmitted.
C7_FirstZeroReportSent ==
    (Built /\ all_idle /\ builds = 1) => tx.invoked

\* C7 as amended: in a run with no button ever pressed and no movement, every
\* report built is all zero and none is transmitted, the first one included.
C7_IdleNeverSends ==
    (Built /\ all_idle) => (report = ZeroReport /\ ~tx.invoked)

C7_Witness ==
    /\ Built
    /\ all_idle
    /\ builds = 2
    /\ ~tx.invoked

\* C8: at every elapsed report interval send_report is invoked if and only if
\* one of the four movement bytes of the report is non-zero or the report
\* differs from the last-sent snapshot; no report is sent in between.
C8_TransmissionGuard ==
    /\ [][BuildStep =>
            (tx'.invoked <=>
                \/ \E k \in 1 .. 4 : report'[k] # 0
                \/ report' # last_report)]_vars
    /\ [][(pc = "report" /\ since_report < REPORT_INTERVAL) =>
            (~tx'.built /\ ~tx'.invoked)]_vars

C8_Witness ==
    /\ Built
    /\ tx.invoked
    /\ tx.has_movement
    /\ ~tx.has_change
    /\ report = last_report

\* C9: no accepted press or release is dropped by the zero-movement
\* suppression: whenever a report is suppressed, the host has already
\* received a report carrying its button bitmask.
C9_ButtonChangeDelivered ==
    (Built /\ ~tx.invoked) => host_buttons = report[5]

\* C10: every report passed to send_report has 7 bytes; bytes 5 and 6 are 0;
\* bit i of byte 4 is set exactly when channel i's pressed flag is true and
\* bits 4..7 are 0; bytes 0..3 carry the movement of channels 0..3 in order.
C10_ReportLayout ==
    (pc = "sleep" /\ tx.invoked) =>
        /\ DOMAIN report = 1 .. 7
        /\ \A k \in 1 .. 7 : report[k] \in 0 .. 255
        /\ report[6] = 0 /\ report[7] = 0
        /\ \A i \in 0 .. 3 :
               ((report[5] \div (2 ^ i)) % 2 = 1) <=> encoders[i].button_pressed
        /\ report[5] \div 16 = 0
        /\ \A i \in 0 .. 3 : SignedOf(report[i + 1]) = tx.movement[i]

C10_Witness ==
    /\ pc = "sleep"
    /\ tx.invoked
    /\ report[5] = 8
    /\ encoders[3].button_pressed

\* The key names of the keyboard firmware, by channel.
CwKeyName == << "F1", "F3", "F5", "F7" >>
CcwKeyName == << "F2", "F4", "F6", "F8" >>
BtnKeyName == << "F9", "F10", "F11", "F12" >>

\* The keys this poll owes for channel i: the key of the detent its step
\* completes, then the button key if the pressed flag rises.
KeysOwed(i) ==
    LET d == DetentDue(encoders[i].steps, encoders[i].last_ab_state,
                       polled'[i].ab)
    IN  (IF d = 1 THEN << CwKeyName[i + 1] >>
         ELSE IF d = -1 THEN << CcwKeyName[i + 1] >>
         ELSE << >>)
        \o (IF ~encoders[i].button_pressed /\ encoders'[i].button_pressed
            THEN << BtnKeyName[i + 1] >> ELSE << >>)

\* C12: in keyboard mode the keys passed to keyboard.send in a poll are
\* exactly, channel by channel in index order: one CW key (F1, F3, F5, F7) per
\* CW detent or one CCW key (F2, F4, F6, F8) per CCW detent, followed by one
\* button key (F9..F12) per accepted press edge; a release and a poll with
\* neither a detent nor a press edge send nothing.
C12_KeyEvents ==
    [][(PollStep /\ mode = "keyboard") =>
         [ k \in DOMAIN keys' |-> keys'[k].key ]
           = KeysOwed(0) \o KeysOwed(1) \o KeysOwed(2) \o KeysOwed(3)]_vars

\* A CW detent and a press edge of channel 3 in the same poll.
C12_Witness ==
    /\ mode = "keyboard" /\ pc = "sleep"
    /\ Len(keys) = 2 /\ keys[1].key = "F7" /\ keys[2].key = "F12"
    /\ polled[3].detent = 1 /\ polled[3].edge = "press"

\* C13: in keyboard mode a poll whose keyboard.send calls fail or succeed ends
\* with the loop going on to its sleep, and every channel whose key was
\* passed to keyboard.send, whatever the outcome, is in the state of a
\* completed emission: after a detent key the step accumulator is 0 and the
\* stored phase is the phase read; after a button key the press is accepted
\* with the debounce window restarted.  So a failed key is not due again.
C13_SendFailureContained ==
    [][(PollStep /\ mode = "keyboard") =>
         /\ pc' = "sleep"
         /\ \A k \in DOMAIN keys' : \A i \in Channels :
              /\ keys'[k].key \in { CwKeyName[i + 1], CcwKeyName[i + 1] }
                   => /\ encoders'[i].steps = 0
                      /\ encoders'[i].last_ab_state = polled'[i].ab
              /\ keys'[k].key = BtnKeyName[i + 1]
                   => /\ encoders'[i].button_pressed
                      /\ ~encoders'[i].last_button_state
                      /\ encoders'[i].since_button = 0]_vars

\* A poll of channel 3 in which the send of the detent key failed and the
\* send of the button key that followed was still made.
C13_Witness ==
    /\ mode = "keyboard" /\ pc = "sleep"
    /\ Len(keys) = 2 /\ keys[1].key = "F7" /\ ~keys[1].ok
    /\ keys[2].key = "F12"
    /\ encoders[3].steps = 0 /\ encoders[3].button_pressed

\* C14: the last-sent snapshot is the report most recently transmitted with
\* success: a build replaces it by the report built when send_report was
\* invoked and succeeded, and leaves it unchanged when the report was
\* suppressed or send_report failed.
C14_SnapshotIsLastTransmitted ==
    [][BuildStep =>
         last_report' = IF tx'.invoked /\ tx'.ok THEN report' ELSE last_report]_vars

\* C15: right after every report build, whether the report was sent,
\* suppressed or its send failed, every channel's movement accumulator is 0
\* and the loop goes on to its sleep; the movement bytes of every report
\* built are exactly the net detents completed since the previous build, so
\* the movement of an interval whose send failed is in no later report.
C15_FailedMovementDiscarded ==
    /\ [](Built => \A i \in Channels : encoders[i].accumulated_movement = 0)
    /\ [][BuildStep =>
            /\ pc' = "sleep"
            /\ \A i \in Channels : SignedOf(report'[i + 1]) = fresh[i]]_vars

\* A report carrying movement whose send failed, accumulators cleared.
C15_Witness ==
    /\ Built /\ tx.invoked /\ ~tx.ok /\ tx.has_movement
    /\ \E i \in Channels : tx.movement[i] # 0 /\ report[i + 1] # 0
    /\ \A i \in Channels : encoders[i].accumulated_movement = 0

\* C16: a poll that reads a raw button level different from the accepted
\* level less than 20 ms after the accepted level last changed (or after
\* construction) changes none of the accepted level, the debounce timestamp
\* and the pressed flag, and sends no button event; the window keeps its end.
C16_BounceFrame ==
    [][PollStep => \A i \in Channels :
         (polled'[i].sw # encoders[i].last_button_state
          /\ since_change[i] < BUTTON_DEBOUNCE_TIME)
         => /\ encoders'[i].last_button_state = encoders[i].last_button_state
            /\ encoders'[i].since_button = encoders[i].since_button
            /\ encoders'[i].button_pressed = encoders[i].button_pressed
            /\ CountKey(keys', KEY_MAPPINGS[i + 1].btn_key) = 0]_vars

\* A bounce read in the middle of the window of an accepted press.
C16_Witness ==
    \E i \in Channels :
        /\ polled[i].edge = "ignored" /\ polled[i].sw
        /\ encoders[i].button_pressed /\ ~encoders[i].last_button_state
        /\ encoders[i].since_button \in 1 .. BUTTON_DEBOUNCE_TIME - 1
        /\ since_change[i] = encoders[i].since_button

\* The poll being made looks up a pair of different phases that is not in
\* the transition table.
InvalidLookup(i) ==
    /\ polled'[i].ab # encoders[i].last_ab_state
    /\ << encoders[i].last_ab_state, polled'[i].ab >> \notin TablePairs

\* The last poll of channel i read a two-bit jump away from the phase the
\* polls before it had read, and the poll being made reads that phase again.
BackFromNoise(i) ==
    /\ noise_from[i] \in Phases
    /\ polled'[i].ab = noise_from[i]

\* C17 as stated: the poll that follows a single noise sample and reads the
\* true phase again makes no invalid lookup, so a single noise sample never
\* causes two consecutive invalid lookups.
C17_NoiseOneInvalidLookup ==
    [][PollStep => \A i \in Channels : BackFromNoise(i) => ~InvalidLookup(i)]_vars

\* C17 amended: after every poll the stored previous phase is the phase just
\* read, also when the pair looked up is not in the table; the poll that
\* follows a single noise sample and reads the true phase again makes a
\* second invalid lookup (from the noise phase back), and it leaves the step
\* accumulator unchanged and puts out no detent.
C17_NoiseTwoInvalidLookups ==
    [][PollStep => \A i \in Channels :
         /\ encoders'[i].last_ab_state = polled'[i].ab
         /\ BackFromNoise(i)
              => /\ InvalidLookup(i)
                 /\ encoders'[i].steps = encoders[i].steps
                 /\ CwOut(i) + CcwOut(i) = 0]_vars

\* A poll has just read the true phase again after a single noise sample,
\* a partial count being in progress.
C17_Witness ==
    \E i \in Channels :
        /\ noise_from[i] = NoisedBack
        /\ polled[i].lookup = "invalid"
        /\ encoders[i].last_ab_state = polled[i].ab
        /\ encoders[i].steps # 0

\* C18: no direction lock.  With a partial count k, 1 <= |k| <= 3, a valid
\* step in the opposite direction makes the count k plus the step, of
\* magnitude |k| - 1, and puts out no detent; the step accumulator always is
\* the running net count of valid steps, and a detent is put out only by the
\* step that brings that count to +4 or -4.
C18_NoDirectionLock ==
    /\ [](\A i \in Channels : encoders[i].steps = net[i])
    /\ [][PollStep => \A i \in Channels :
            LET dir == CycleDir(encoders[i].last_ab_state, polled'[i].ab)
                k == encoders[i].steps
            IN  /\ (dir # 0 /\ k * dir < 0)
                     => /\ encoders'[i].steps = k + dir
                        /\ Max(encoders'[i].steps, -encoders'[i].steps)
                             = Max(k, -k) - 1
                        /\ CwOut(i) + CcwOut(i) = 0
                /\ CwOut(i) + CcwOut(i) >= 1 => net[i] + dir \in { -4, 4 }]_vars

\* A counter-clockwise step has just reduced a clockwise count of 3 to 2.
C18_Witness ==
    \E i \in Channels :
        /\ polled[i].lookup = "valid" /\ polled[i].dir = -1
        /\ polled[i].detent = 0
        /\ encoders[i].steps = 2 /\ net[i] = 2

\* C19: a report is built only when at least REPORT_INTERVAL (10 ms) has
\* passed since the previous build, or since the loop started for the first
\* build; every build, sent, suppressed or failed, restarts the interval
\* timer; and a report is built only after channels 0, 1, 2, 3 were polled
\* in this order in the same iteration.
C19_ReportRateLimit ==
    [][BuildStep =>
         /\ since_build >= REPORT_INTERVAL
         /\ since_report' = 0
         /\ visited = << 0, 1, 2, 3 >>]_vars

\* A second build, whose report was suppressed, has restarted the timer.
C19_Witness ==
    /\ Built /\ builds = 2 /\ ~tx.invoked
    /\ since_report = 0 /\ since_build = 0

\* C20: in every reachable state, whatever the raw button levels were at
\* construction, a channel's pressed flag is true exactly when its accepted
\* level is low.
C20_PressedIffAcceptedLow ==
    \A i \in Channels :
        encoders[i].button_pressed <=> ~encoders[i].last_button_state

\* End-to-end runs of the Generic HID firmware: channel 0 is turned clockwise
\* by clean steps, at most MaxDetents detents in all; the button of channel
\* 1, released at construction, is pressed at some poll and held from then
\* on; send_report never fails.
InitEndToEnd ==
    \E a \in Phases : InitWith("generic_hid", Scenario(0, 1, TRUE), a, TRUE)

PollEndToEnd ==
    /\ PollWith(IF fed < DETENT_STEPS * MaxDetents
                THEN PhaseInputs(polled[0].ab) ELSE { polled[0].ab },
                IF polled[1].sw THEN ButtonInputs ELSE { FALSE })
    /\ fed' = IF polled'[0].ab # polled[0].ab THEN fed + 1 ELSE fed
    /\ sent_sum' = sent_sum

ReportEndToEnd ==
    /\ ReportWith({ TRUE })
    /\ fed' = fed
    /\ sent_sum' = [ i \in Channels |->
                       IF tx'.invoked /\ tx'.ok
                       THEN sent_sum[i] + SignedOf(report'[i + 1])
                       ELSE sent_sum[i] ]

NextEndToEnd == PollEndToEnd \/ ReportEndToEnd \/ Sleep

SpecEndToEnd == InitEndToEnd /\ [][NextEndToEnd]_vars

C21_NoOvershoot ==
    [][PollStep => \A i \in Channels :
         LET out == CwOut(i) - CcwOut(i)
         IN  /\ out # 0 => polled'[i].at = 4 * out
             /\ polled'[i].at
                  = encoders[i].steps
                    + CycleDir(encoders[i].last_ab_state, polled'[i].ab)
             /\ encoders'[i].steps = polled'[i].at - 4 * out]_vars

\* A clockwise detent put out at exactly +4 by a step that does not end a
\* clean run of four (a reversal or an invalid jump came in between).
C21_Witness ==
    \E i \in Channels :
        /\ polled[i].detent = 1 /\ polled[i].at = 4
        /\ encoders[i].steps = 0
        /\ streak[i] = 0

\* C22: a build that follows a build with movement, with no detent completed
\* since and the same button mask, calls send_report with a report whose
\* movement bytes are all zero and whose button byte is that mask; a build
\* that follows a build without movement, again with no detent since and the
\* same mask, calls nothing.  So one trailing zero report follows the
\* movement and none after it until a detent completes or a pressed flag
\* changes, whether the sends succeed or fail.
C22_TrailingZeroReport ==
    Built =>
        /\ tx.follows = "moved"
             => /\ tx.invoked
                /\ \A i \in Channels : report[i + 1] = 0
                /\ report[NumEncoders + 1] = prev_build.mask
        /\ tx.follows = "quiet" => ~tx.invoked

\* The trailing zero report after an interval with a detent; its own send
\* failed, and the snapshot is the zero report all the same.
C22_Witness ==
    /\ Built /\ tx.follows = "moved"
    /\ tx.invoked /\ ~tx.ok /\ ~tx.has_movement
    /\ report = last_report

\* C23: a poll that reads a raw button level different from the accepted
\* level at least 20 ms after the accepted level last changed (or after
\* construction) accepts it at that very poll; and, the loop running on
\* with one button moving, a raw level read different from the accepted
\* level leads to the two being equal again on every channel, so a level
\* change that is sustained is eventually accepted.
C23_SustainedChangeAccepted ==
    /\ [][PollStep => \A i \in Channels :
            (polled'[i].sw # encoders[i].last_button_state
             /\ since_change[i] >= BUTTON_DEBOUNCE_TIME)
            => /\ encoders'[i].last_button_state = polled'[i].sw
               /\ encoders'[i].since_button = 0]_vars
    /\ (\E i \in Channels : polled[i].sw # encoders[i].last_button_state)
         ~> (\A i \in Channels : polled[i].sw = encoders[i].last_button_state)

\* A level read low has just been accepted as a press by the poll made when
\* the window had run out.
C23_Witness ==
    \E i \in Channels :
        /\ pc # "poll"
        /\ polled[i].edge = "press" /\ ~polled[i].sw
        /\ ~encoders[i].last_button_state /\ encoders[i].button_pressed
        /\ since_change[i] = 0 /\ encoders[i].since_button = 0

====
